---- MODULE Spec2Model ----
(***************************************************************************)
(* Model of the SLIR cellular automaton of sir.ipynb: the grid of vines,   *)
(* the heterogeneity initialiser, the four transition rules, update_agent  *)
(* and VineInfectionModel.setup / step, driven the way AgentPy drives a    *)
(* model (sim_setup: t = 0, setup; sim_step: t += 1, step, stop at steps). *)
(*                                                                         *)
(* Real numbers are exact rationals here:                                  *)
(*   a uniform draw random.random() is  prob / RandomDen,                  *)
(*   a latency_duration random.gauss(8, 2) is  latency_duration/LatencyDen.*)
(***************************************************************************)
EXTENDS Integers, Sequences, FiniteSets, TLC

(* ------------------------------ bounds -------------------------------- *)
\* parameters['size'] (100 in the notebook), scaled down
GridSize == 2
\* parameters['steps'] (200 in the notebook), scaled down; above removal_threshold
Steps == 12
\* parameters['initial_infection_count'] ranges over 0..MaxInitialInfection
MaxInitialInfection == 2
\* Spec explores every setup for Horizon steps (SpecRuns explores whole runs)
Horizon == 4
\* SpecOrder explores OrderHorizon steps, in every visiting order
OrderHorizon == 3
\* uniform draws are k / RandomDen, k in 0..RandomDen-1  (the interval [0, 1))
RandomDen == 2
\* gaussian draws are k / LatencyDen, k in {MinLatencyNum, 0, MaxLatencyNum}
LatencyDen == 1
MaxLatencyNum == 3

(* ------------------------- program constants -------------------------- *)
SUSCEPTIBLE == 0
LATENT == 1
INFECTED == 2
RECOVERED == 3

intercropping_distance == 5
intercropping_row_count == 5

default_infectivity_offset == 10
resistant_infectivity_offset == 180

default_infectivity == 10

removal_threshold == 10
\* recovery_rate = 0.001 = RecoveryRateNum / RecoveryRateDen
RecoveryRateNum == 1
RecoveryRateDen == 1000

\* lowest numerator of a gaussian draw: negative draws are not clamped
MinLatencyNum == 0 - 1

\* an attribute that has not been assigned yet (state_next after setup)
NoAttribute == 0 - 1

AgentStates == {SUSCEPTIBLE, LATENT, INFECTED, RECOVERED}

(* ------------------------------- state -------------------------------- *)
VARIABLES
    agents,            \* position -> the vine's attributes
    t,                 \* model.t: steps completed in the current run
    model_generation,  \* the notebook's global
    running,           \* model.running
    pre,               \* history: state and initial_state before the last step
    latent_evals       \* history: position -> number of steps that evaluated the
                       \* vine as LATENT since it last entered LATENT

vars == <<agents, t, model_generation, running, pre, latent_evals>>

(* ------------------------------ the grid ------------------------------ *)
Positions == (0 .. GridSize - 1) \X (0 .. GridSize - 1)

\* self.agents: creation order = row-major order of the positions
AgentOrder ==
    [i \in 1 .. GridSize * GridSize |->
        <<(i - 1) \div GridSize, (i - 1) % GridSize>>]

Abs(n) == IF n < 0 THEN 0 - n ELSE n

\* vineyard.neighbors(vine): Moore neighbourhood, distance 1, no torus
neighbors(pos) ==
    {q \in Positions : q # pos /\ Abs(q[1] - pos[1]) <= 1 /\ Abs(q[2] - pos[2]) <= 1}

(* ------------------------- heterogeneity ------------------------------ *)
\* the banding test reading the second coordinate of the position
is_intercropped_resistant_cultivar_by_y(position) ==
    LET y_coordinate == position[2]
    IN  y_coordinate % (intercropping_distance + intercropping_row_count)
            >= intercropping_distance

is_intercropped_resistant_cultivar(position) ==
    LET x_coordinate == position[1]
    IN  x_coordinate % (intercropping_distance + intercropping_row_count)
            >= intercropping_distance

\* the gaussian draws considered: a negative one, zero and the largest
LatencyDraws == {MinLatencyNum, 0, MaxLatencyNum}

\* one vine after set_up_agent_variable_attributes, gauss being its gaussian draw
set_up_agent(position, gauss) ==
    LET is_resistant_cultivar == is_intercropped_resistant_cultivar(position)
        initial == IF is_resistant_cultivar THEN RECOVERED ELSE SUSCEPTIBLE
    IN  [ initial_state      |-> initial,
          state              |-> initial,
          state_next         |-> NoAttribute,
          infectivity_offset |-> IF is_resistant_cultivar
                                 THEN resistant_infectivity_offset
                                 ELSE default_infectivity_offset,
          latency_counter    |-> 0,
          latency_duration   |-> gauss ]

set_up_agent_variable_attributes(gauss) ==
    [p \in Positions |-> set_up_agent(p, gauss[p])]

(* -------------------------- transition rules -------------------------- *)
\* prob <= infectivity / (infectivity + offset), prob = probNum / RandomDen
s_2_l(vine, nbrs, probNum) ==
    LET neighborhood_infectivity ==
            default_infectivity * Cardinality({n \in DOMAIN nbrs : nbrs[n].state = INFECTED})
    IN  probNum * (neighborhood_infectivity + vine.infectivity_offset)
            <= neighborhood_infectivity * RandomDen

\* l_2_i with a strict comparison
l_2_i_strict(vine) ==
    vine.latency_counter * LatencyDen > vine.latency_duration

l_2_i(vine) ==
    vine.latency_counter * LatencyDen >= vine.latency_duration

self_recovery(probNum) ==
    probNum * RecoveryRateDen <= RecoveryRateNum * RandomDen

\* manual_removal firing one generation early
manual_removal_early(generation) ==
    generation > 0 /\ (generation + 1) % removal_threshold = 0

manual_removal(generation) ==
    generation > 0 /\ generation % removal_threshold = 0

(* ------------------------------ update_agent -------------------------- *)
\* the three consecutive `if` blocks of update_agent, each testing vine.state
\* the SUSCEPTIBLE / RECOVERED block assigning state_next only when s_2_l fires
SusceptibleBranchAssignOnFire(vine, nbrs, probNum) ==
    IF vine.state = SUSCEPTIBLE \/ vine.state = RECOVERED
    THEN IF s_2_l(vine, nbrs, probNum)
         THEN [vine EXCEPT !.state_next = LATENT]
         ELSE vine
    ELSE vine

SusceptibleBranch(vine, nbrs, probNum) ==
    IF vine.state = SUSCEPTIBLE \/ vine.state = RECOVERED
    THEN [vine EXCEPT !.state_next =
              IF s_2_l(vine, nbrs, probNum) THEN LATENT ELSE vine.state]
    ELSE vine

\* LatentBranch testing l_2_i before counting the generation
LatentBranchCountAfter(vine) ==
    IF vine.state = LATENT
    THEN IF l_2_i(vine)
         THEN [vine EXCEPT !.state_next = INFECTED]
         ELSE [vine EXCEPT !.latency_counter = @ + 1, !.state_next = vine.state]
    ELSE vine

\* LatentBranch writing vine.state directly instead of staging it
LatentBranchInPlace(vine) ==
    IF vine.state = LATENT
    THEN LET counted == [vine EXCEPT !.latency_counter = @ + 1]
             next == IF l_2_i(counted) THEN INFECTED ELSE counted.state
         IN  [counted EXCEPT !.state_next = next, !.state = next]
    ELSE vine

LatentBranch(vine) ==
    IF vine.state = LATENT
    THEN LET counted == [vine EXCEPT !.latency_counter = @ + 1]
         IN  [counted EXCEPT !.state_next =
                  IF l_2_i(counted) THEN INFECTED ELSE counted.state]
    ELSE vine

\* InfectedBranch testing manual removal before self-recovery
InfectedBranchRemovalFirst(vine, probNum, generation) ==
    IF vine.state = INFECTED
    THEN LET reset == [vine EXCEPT !.latency_counter = 0]
         IN  IF manual_removal(generation)
             THEN [reset EXCEPT !.state_next = reset.initial_state]
             ELSE IF self_recovery(probNum)
             THEN [reset EXCEPT !.initial_state = RECOVERED,
                                !.state_next = RECOVERED,
                                !.infectivity_offset = resistant_infectivity_offset]
             ELSE [reset EXCEPT !.state_next = reset.state]
    ELSE vine

\* InfectedBranch whose manual removal sends the vine back to LATENT
InfectedBranchToLatent(vine, probNum, generation) ==
    IF vine.state = INFECTED
    THEN LET reset == [vine EXCEPT !.latency_counter = 0]
         IN  IF self_recovery(probNum)
             THEN [reset EXCEPT !.initial_state = RECOVERED,
                                !.state_next = RECOVERED,
                                !.infectivity_offset = resistant_infectivity_offset]
             ELSE IF manual_removal(generation)
             THEN [reset EXCEPT !.state_next = LATENT]
             ELSE [reset EXCEPT !.state_next = reset.state]
    ELSE vine

\* the INFECTED block whose manual removal also gives the vine back the
\* attributes of the default cultivar
InfectedBranchRemovalResetsCultivar(vine, probNum, generation) ==
    IF vine.state = INFECTED
    THEN LET reset == [vine EXCEPT !.latency_counter = 0]
         IN  IF self_recovery(probNum)
             THEN [reset EXCEPT !.initial_state = RECOVERED,
                                !.state_next = RECOVERED,
                                !.infectivity_offset = resistant_infectivity_offset]
             ELSE IF manual_removal(generation)
             THEN [reset EXCEPT !.state_next = SUSCEPTIBLE,
                                !.initial_state = SUSCEPTIBLE,
                                !.infectivity_offset = default_infectivity_offset]
             ELSE [reset EXCEPT !.state_next = reset.state]
    ELSE vine

\* the INFECTED block without its last line: a vine that stays INFECTED gets no
\* state_next
InfectedBranchNoFallThrough(vine, probNum, generation) ==
    IF vine.state = INFECTED
    THEN LET reset == [vine EXCEPT !.latency_counter = 0]
         IN  IF self_recovery(probNum)
             THEN [reset EXCEPT !.initial_state = RECOVERED,
                                !.state_next = RECOVERED,
                                !.infectivity_offset = resistant_infectivity_offset]
             ELSE IF manual_removal(generation)
             THEN [reset EXCEPT !.state_next = reset.initial_state]
             ELSE reset
    ELSE vine

\* the INFECTED block whose self-recovery leaves the infectivity_offset alone
InfectedBranchRecoveryKeepsOffset(vine, probNum, generation) ==
    IF vine.state = INFECTED
    THEN LET reset == [vine EXCEPT !.latency_counter = 0]
         IN  IF self_recovery(probNum)
             THEN [reset EXCEPT !.initial_state = RECOVERED,
                                !.state_next = RECOVERED]
             ELSE IF manual_removal(generation)
             THEN [reset EXCEPT !.state_next = reset.initial_state]
             ELSE [reset EXCEPT !.state_next = reset.state]
    ELSE vine

InfectedBranch(vine, probNum, generation) ==
    IF vine.state = INFECTED
    THEN LET reset == [vine EXCEPT !.latency_counter = 0]
         IN  IF self_recovery(probNum)
             THEN [reset EXCEPT !.initial_state = RECOVERED,
                                !.state_next = RECOVERED,
                                !.infectivity_offset = resistant_infectivity_offset]
             ELSE IF manual_removal(generation)
             THEN [reset EXCEPT !.state_next = reset.initial_state]
             ELSE [reset EXCEPT !.state_next = reset.state]
    ELSE vine

\* the number of assignments to state_next that one call of update_agent
\* executes: one in each of the three blocks whose test on vine.state holds
\* when the call reaches it (the INFECTED block returns after its assignment)
state_next_writes(vine, nbrs, probNum) ==
    LET afterSusceptible == SusceptibleBranch(vine, nbrs, probNum)
        afterLatent == LatentBranch(afterSusceptible)
    IN    (IF vine.state = SUSCEPTIBLE \/ vine.state = RECOVERED THEN 1 ELSE 0)
        + (IF afterSusceptible.state = LATENT THEN 1 ELSE 0)
        + (IF afterLatent.state = INFECTED THEN 1 ELSE 0)

update_agent(vine, nbrs, probNum, generation) ==
    InfectedBranch(LatentBranch(SusceptibleBranch(vine, nbrs, probNum)),
                   probNum, generation)

(* --------------------------------- step ------------------------------- *)
\* the vines around pos, as the compute loop reads them at that moment
NeighborVines(ags, pos) == [n \in neighbors(pos) |-> ags[n]]

\* first loop of step: update_agent on every vine, in the given order
RECURSIVE ComputePhase(_, _, _, _)
ComputePhase(ags, order, prob, generation) ==
    IF order = << >> THEN ags
    ELSE LET pos == Head(order)
         IN  ComputePhase(
                 [ags EXCEPT ![pos] =
                     update_agent(ags[pos], NeighborVines(ags, pos), prob[pos], generation)],
                 Tail(order), prob, generation)

\* a commit that exchanges state and state_next
CommitSwap(ags) ==
    [p \in Positions |->
        [ags[p] EXCEPT !.state = ags[p].state_next, !.state_next = ags[p].state]]

\* second loop of step: vine.state = vine.state_next
Commit(ags) == [p \in Positions |-> [ags[p] EXCEPT !.state = ags[p].state_next]]

StepResult(ags, order, prob, generation) ==
    Commit(ComputePhase(ags, order, prob, generation))

\* the stopping test counting the INFECTED vines only
ActiveCountInfectedOnly(ags) ==
    Cardinality({p \in Positions : ags[p].state = INFECTED})

ActiveCount(ags) ==
    Cardinality({p \in Positions : ags[p].state = LATENT})
  + Cardinality({p \in Positions : ags[p].state = INFECTED})

\* the uniform draws of one step: one random.random() for every vine that is
\* not LATENT (s_2_l or self_recovery); a LATENT vine draws nothing (0 here)
RandomDraws(ags) ==
    {prob \in [Positions -> 0 .. RandomDen - 1] :
        \A p \in Positions : ags[p].state = LATENT => prob[p] = 0}

\* what the history variable pre keeps of a grid
Before(ags) ==
    [p \in Positions |->
        [state |-> ags[p].state, initial_state |-> ags[p].initial_state]]

(* -------------------------------- setup ------------------------------- *)
\* VineInfectionModel.setup with the seeded sample `infected`
setup(gauss, infected) ==
    LET vines == set_up_agent_variable_attributes(gauss)
    IN  [p \in Positions |->
            IF p \in infected THEN [vines[p] EXCEPT !.state = LATENT] ELSE vines[p]]

Samples == {s \in SUBSET Positions : Cardinality(s) <= MaxInitialInfection}

\* every assignment of gaussian draws to the vines
AllGauss == [Positions -> LatencyDraws]
\* the assignments that give every vine the same draw
UniformGauss == {[p \in Positions |-> g] : g \in LatencyDraws}

\* sim_setup: t = 0, setup(); running unless t >= steps
SimSetup(Gauss) ==
    \E gauss \in Gauss, infected \in Samples :
        /\ agents = setup(gauss, infected)
        /\ t = 0
        /\ running = (0 < Steps)
        /\ pre = Before(setup(gauss, infected))
        /\ latent_evals = [p \in Positions |-> 0]

Init ==
    /\ model_generation = 0
    /\ SimSetup(AllGauss)

InitRuns ==
    /\ model_generation = 0
    /\ SimSetup(UniformGauss)

\* sim_step: t += 1, step(), then running = False at t >= steps; the compute
\* loop visits the vines in the given order
StepInOrder(order) ==
    /\ running
    /\ \E prob \in RandomDraws(agents) :
          agents' = StepResult(agents, order, prob, model_generation)
    /\ t' = t + 1
    /\ model_generation' = t'
    /\ running' = (ActiveCount(agents') # 0 /\ t' < Steps)
    /\ pre' = Before(agents)
    /\ latent_evals' = [p \in Positions |->
            IF agents[p].state = LATENT /\ agents'[p].state = LATENT
            THEN latent_evals[p] + 1 ELSE 0]

\* `for vine in self.agents` visits the vines in creation order
Step == StepInOrder(AgentOrder)

\* the simulation cell is executed again: a new model is set up in the same
\* process; the global model_generation is not assigned by setup
NewRun ==
    /\ ~running
    /\ \E gauss \in UniformGauss, infected \in Samples :
          /\ agents' = setup(gauss, infected)
          /\ pre' = Before(setup(gauss, infected))
    /\ latent_evals' = [p \in Positions |-> 0]
    /\ t' = 0
    /\ running' = (0 < Steps)
    /\ UNCHANGED model_generation

\* every order in which the compute loop could visit the vines
Orders ==
    {o \in [1 .. GridSize * GridSize -> Positions] :
        \A i, j \in 1 .. GridSize * GridSize : i # j => o[i] # o[j]}

\* a step whose compute loop visits the vines in an arbitrary order
StepAnyOrder == \E order \in Orders : StepInOrder(order)

\* every setup, the first Horizon steps of one run
Next == t < Horizon /\ Step

Spec == Init /\ [][Next]_vars

\* whole runs (up to Steps steps) and re-runs, from the uniform setups
NextRuns == Step \/ NewRun

SpecRuns == InitRuns /\ [][NextRuns]_vars

\* the uniform setups, the first OrderHorizon steps, the vines visited in any order
NextOrder == t < OrderHorizon /\ StepAnyOrder

SpecOrder == InitRuns /\ [][NextOrder]_vars

(* ----------------------- setup on other grid sizes -------------------- *)
\* the size of the grid on which the banding of the cultivars is examined
BandSize == 20
\* the grid sizes of SpecSetup: a single vine, and a grid with a resistant band
SmallSize == 1
BandedSize == 6
\* the largest initial_infection_count SpecSetup configures
MaxConfiguredInfection == 2

GridPositions(size) == (0 .. size - 1) \X (0 .. size - 1)

\* what the history variable pre keeps of a grid of any size
BeforeOf(grid) ==
    [p \in DOMAIN grid |->
        [state |-> grid[p].state, initial_state |-> grid[p].initial_state]]

\* the state sim_setup leaves around a grid: t = 0, running unless t >= steps
AfterSetup(grid) ==
    /\ agents = grid
    /\ t = 0
    /\ running = (0 < Steps)
    /\ pre = BeforeOf(grid)
    /\ latent_evals = [p \in DOMAIN grid |-> 0]
    /\ model_generation = 0

\* the loop of set_up_agent_variable_attributes over a grid of size BandSize,
\* one iteration at a time; agents holds the vine the loop has just set up
SetUpLoopAt(position, gauss) == [p \in {position} |-> set_up_agent(p, gauss)]

InitBanding == \E gauss \in LatencyDraws : AfterSetup(SetUpLoopAt(<<0, 0>>, gauss))

\* the position that follows pos in creation (row-major) order
NextInCreationOrder(pos) ==
    IF pos[2] + 1 < BandSize THEN <<pos[1], pos[2] + 1>> ELSE <<pos[1] + 1, 0>>

SetUpNextAgent ==
    \E pos \in DOMAIN agents, gauss \in LatencyDraws :
        LET grid == SetUpLoopAt(NextInCreationOrder(pos), gauss)
        IN  /\ NextInCreationOrder(pos) \in GridPositions(BandSize)
            /\ agents' = grid
            /\ pre' = BeforeOf(grid)
            /\ latent_evals' = [p \in DOMAIN grid |-> 0]
            /\ UNCHANGED <<t, running, model_generation>>

SpecBanding == InitBanding /\ [][SetUpNextAgent]_vars

\* AgentList.random(count): the samples of count distinct vines; none exists
\* when count exceeds the number of vines
RECURSIVE SamplesOf(_, _)
SamplesOf(cells, count) ==
    IF count = 0 THEN {{}}
    ELSE {s \in {r \cup {p} : r \in SamplesOf(cells, count - 1), p \in cells} :
            Cardinality(s) = count}

\* setup whose seeding passes over the vines of the resistant cultivar
setup_on_sparing_resistant(size, gauss, infected) ==
    [p \in GridPositions(size) |->
        LET vine == set_up_agent(p, gauss)
        IN  IF p \in infected /\ vine.initial_state # RECOVERED
            THEN [vine EXCEPT !.state = LATENT] ELSE vine]

\* VineInfectionModel.setup on a grid of the given size, every vine with the
\* gaussian draw gauss, seeded with the sample `infected`
setup_on(size, gauss, infected) ==
    [p \in GridPositions(size) |->
        LET vine == set_up_agent(p, gauss)
        IN  IF p \in infected THEN [vine EXCEPT !.state = LATENT] ELSE vine]

\* random.sample raises ValueError when the sample is larger than the population
setup_raises(size, initial_infection_count) ==
    initial_infection_count > size * size

\* the grids setup can leave: seeded with a sample of initial_infection_count
\* vines, or left unseeded when the sampling raises
setup_outcomes(size, initial_infection_count, gauss) ==
    IF setup_raises(size, initial_infection_count)
    THEN {setup_on(size, gauss, {})}
    ELSE {setup_on(size, gauss, infected) :
            infected \in SamplesOf(GridPositions(size), initial_infection_count)}

SetupSizes == {SmallSize, BandedSize}

\* every grid that setup can leave under the configurations considered
ConfiguredGrids ==
    UNION {setup_outcomes(size, count, gauss) :
            size \in SetupSizes, count \in 0 .. MaxConfiguredInfection,
            gauss \in LatencyDraws}

\* the values considered for the numerator of the global recovery_rate
RecoveryRateNums == {0 - RecoveryRateNum, RecoveryRateNum}

\* the configurations considered: the parameters of the model and the global
\* recovery_rate
Configurations ==
    [size : SetupSizes,
     initial_infection_count : 0 .. MaxConfiguredInfection,
     recovery_rate_num : RecoveryRateNums]

\* the grids with which setup returns under a configuration: none when the
\* sampling raises; setup reads the size and the count only
produced_grids(configuration) ==
    IF setup_raises(configuration.size, configuration.initial_infection_count)
    THEN {}
    ELSE UNION {setup_outcomes(configuration.size,
                               configuration.initial_infection_count, gauss) :
                    gauss \in LatencyDraws}

InitSetup == \E grid \in ConfiguredGrids : AfterSetup(grid)

LatentVines(grid) == {p \in DOMAIN grid : grid[p].state = LATENT}

\* the simulation cell is executed again under another configuration, here
\* after a setup that has seeded no vine (every grid is an initial state too)
ReSetup ==
    /\ LatentVines(agents) = {}
    /\ \E grid \in ConfiguredGrids :
           /\ agents' = grid
           /\ pre' = BeforeOf(grid)
           /\ latent_evals' = [p \in DOMAIN grid |-> 0]
           /\ t' = 0
           /\ running' = (0 < Steps)
           /\ UNCHANGED model_generation

SpecSetup == InitSetup /\ [][ReSetup]_vars

(* ====================================================================== *)
(*                               claims                                   *)
(* ====================================================================== *)
\* a step of the run was taken (NewRun sets t back to 0)
Stepped == t' = t + 1

\* the transition rules applied to all vines at once, each reading the
\* committed grid, and the results committed
SimultaneousResult(ags, prob, generation) ==
    [p \in Positions |->
        LET vine == update_agent(ags[p], NeighborVines(ags, p), prob[p], generation)
        IN  [vine EXCEPT !.state = vine.state_next]]

\* C1: whatever the uniform draws of the next step are, the compute loop changes
\* no vine's state, and for every visiting order the committed grid is the one
\* obtained by applying the transition rules to all vines simultaneously.
C1_SynchronousUpdate ==
    running =>
        \A prob \in RandomDraws(agents), order \in Orders :
            LET computed == ComputePhase(agents, order, prob, model_generation)
            IN  /\ \A p \in Positions : computed[p].state = agents[p].state
                /\ Commit(computed)
                      = SimultaneousResult(agents, prob, model_generation)

\* C1 witness: a step has turned a LATENT vine INFECTED while a SUSCEPTIBLE
\* neighbour visited after it in the same loop stayed SUSCEPTIBLE.
C1_Witness ==
    \E i, j \in 1 .. GridSize * GridSize :
        /\ i < j
        /\ AgentOrder[j] \in neighbors(AgentOrder[i])
        /\ pre[AgentOrder[i]].state = LATENT
        /\ agents[AgentOrder[i]].state = INFECTED
        /\ pre[AgentOrder[j]].state = SUSCEPTIBLE
        /\ agents[AgentOrder[j]].state = SUSCEPTIBLE
        /\ t > 0 /\ running

AllowedChange(from, to, initial) ==
    \/ to = from
    \/ from = SUSCEPTIBLE /\ to = LATENT
    \/ from = RECOVERED /\ to = LATENT
    \/ from = LATENT /\ to = INFECTED
    \/ from = INFECTED /\ to = RECOVERED
    \/ from = INFECTED /\ to = initial /\ initial \in {SUSCEPTIBLE, RECOVERED}

InfectedNeighbors(ags, p) ==
    Cardinality({n \in neighbors(p) : ags[n].state = INFECTED})

\* C3: in every step a SUSCEPTIBLE or RECOVERED vine with zero INFECTED
\* neighbours keeps its state, whatever the uniform draw.
C3_ZeroNeighborsNeverFires ==
    [][Stepped =>
        \A p \in Positions :
            (agents[p].state \in {SUSCEPTIBLE, RECOVERED}
                /\ InfectedNeighbors(agents, p) = 0)
            => agents'[p].state = agents[p].state]_vars

\* the uniform draw probNum / RandomDen is at most recovery_rate
DrawAtMostRecoveryRate(probNum) ==
    probNum * RecoveryRateDen <= RecoveryRateNum * RandomDen

\* t, the number of completed steps, is a strictly positive multiple of 10
RemovalGeneration == t > 0 /\ t % 10 = 0

\* C4: when a step is evaluated at generation t (t completed steps), an INFECTED
\* vine whose draw does not make it self-recover gets state_next = initial_state
\* if t is 10, 20, ... and stays INFECTED at generation 0 and at every generation
\* that is not a multiple of 10.
C4_ManualRemovalSynchrony ==
    running =>
        \A p \in Positions, probNum \in 0 .. RandomDen - 1 :
            (agents[p].state = INFECTED /\ ~DrawAtMostRecoveryRate(probNum))
            => update_agent(agents[p], NeighborVines(agents, p), probNum,
                            model_generation).state_next
                 = IF RemovalGeneration THEN agents[p].initial_state ELSE INFECTED

\* C4 witness: the step evaluated at generation 10 has moved an INFECTED vine
\* whose initial_state is SUSCEPTIBLE back to SUSCEPTIBLE.
C4_Witness ==
    /\ t = 11
    /\ \E p \in Positions :
          /\ pre[p].state = INFECTED
          /\ pre[p].initial_state = SUSCEPTIBLE
          /\ agents[p].state = SUSCEPTIBLE

\* C5: whenever a step is about to be evaluated, model_generation equals the
\* number of steps completed in the current run: 0 at the first step of every
\* run (re-runs included) and one more after each step.
C5_GenerationCounterTracksRun ==
    running => model_generation = t

\* C6: at every committed generation a vine that is not LATENT has
\* latency_counter = 0.
C6_CounterZeroUnlessLatent ==
    \A p \in Positions :
        agents[p].state # LATENT => agents[p].latency_counter = 0

\* C7: in every step the latency_counter of a LATENT vine grows by exactly 1 and
\* that of a SUSCEPTIBLE or RECOVERED vine is unchanged; the counter of a LATENT
\* vine is the number of steps that evaluated it as LATENT since it entered.
C7_LatencyCounting ==
    /\ [](\A p \in Positions :
            agents[p].state = LATENT => agents[p].latency_counter = latent_evals[p])
    /\ [][Stepped =>
            \A p \in Positions :
                /\ agents[p].state = LATENT
                     => agents'[p].latency_counter = agents[p].latency_counter + 1
                /\ agents[p].state \in {SUSCEPTIBLE, RECOVERED}
                     => agents'[p].latency_counter = agents[p].latency_counter]_vars

\* C7 witness: a vine has been LATENT over two consecutive steps and its
\* counter is 2.
C7_Witness ==
    \E p \in Positions :
        /\ pre[p].state = LATENT
        /\ agents[p].state = LATENT
        /\ agents[p].latency_counter = 2
        /\ latent_evals[p] = 2

\* C8: a LATENT vine becomes INFECTED in a step exactly when its counter, after
\* the increment of that step, is >= its latency_duration, and stays LATENT
\* otherwise; a vine with latency_duration <= 1 is INFECTED after one step; a
\* vine enters INFECTED only from LATENT.
C8_LatencyThreshold ==
    [][Stepped =>
        \A p \in Positions :
          /\ (agents'[p].state = INFECTED /\ agents[p].state # INFECTED)
                => agents[p].state = LATENT
          /\ agents[p].state = LATENT =>
                /\ agents'[p].state = INFECTED
                     <=> (agents[p].latency_counter + 1) * LatencyDen
                             >= agents[p].latency_duration
                /\ agents'[p].state \in {LATENT, INFECTED}
                /\ agents[p].latency_duration <= 1 * LatencyDen
                     => agents'[p].state = INFECTED]_vars

\* C8 witness: in one step a vine with a negative latency_duration became
\* INFECTED after one step as LATENT, and a vine with the largest
\* latency_duration became INFECTED after more than one.
C8_Witness ==
    /\ \E p \in Positions :
          /\ pre[p].state = LATENT /\ agents[p].state = INFECTED
          /\ agents[p].latency_duration < 0
          /\ agents[p].latency_counter = 1
    /\ \E p \in Positions :
          /\ pre[p].state = LATENT /\ agents[p].state = INFECTED
          /\ agents[p].latency_duration = MaxLatencyNum
          /\ agents[p].latency_counter > 1

\* C9: for an INFECTED vine, a draw that fires self-recovery makes state_next and
\* initial_state RECOVERED and the offset resistant, also at a removal
\* generation; otherwise at a removal generation state_next is the unchanged
\* initial_state; otherwise the vine stays INFECTED.
C9_SelfRecoveryFirst ==
    running =>
        \A p \in Positions, probNum \in 0 .. RandomDen - 1 :
            agents[p].state = INFECTED =>
                LET vine == update_agent(agents[p], NeighborVines(agents, p),
                                         probNum, model_generation)
                    kept == /\ vine.initial_state = agents[p].initial_state
                            /\ vine.infectivity_offset = agents[p].infectivity_offset
                IN  IF DrawAtMostRecoveryRate(probNum)
                    THEN /\ vine.state_next = RECOVERED
                         /\ vine.initial_state = RECOVERED
                         /\ vine.infectivity_offset = resistant_infectivity_offset
                    ELSE IF RemovalGeneration
                    THEN vine.state_next = agents[p].initial_state /\ kept
                    ELSE vine.state_next = INFECTED /\ kept

\* C9 witness: in the step evaluated at generation 10 an INFECTED vine whose
\* initial_state was SUSCEPTIBLE self-recovered (RECOVERED, resistant offset).
C9_Witness ==
    /\ t = 11
    /\ \E p \in Positions :
          /\ pre[p].state = INFECTED
          /\ pre[p].initial_state = SUSCEPTIBLE
          /\ agents[p].state = RECOVERED
          /\ agents[p].initial_state = RECOVERED
          /\ agents[p].infectivity_offset = resistant_infectivity_offset

HasLatentOrInfected(grid) ==
    \E p \in Positions : grid[p].state \in {LATENT, INFECTED}

\* C10: a step is taken only while the run is running; after a step the run goes
\* on exactly if a LATENT or INFECTED vine is left and fewer than Steps steps
\* are done; so no step after the first is evaluated on a grid without LATENT
\* and INFECTED vines, and a run never has more than Steps steps.
C10_StoppingCondition ==
    /\ [](t <= Steps /\ (t >= Steps => ~running))
    /\ [][Stepped =>
            /\ running
            /\ t > 0 => HasLatentOrInfected(agents)
            /\ running' <=> (HasLatentOrInfected(agents') /\ t' < Steps)]_vars

\* C10 witness: the run has halted before the cap, right after the first step
\* whose committed grid holds no LATENT and no INFECTED vine.
C10_Witness ==
    /\ ~running
    /\ t > 1 /\ t < Steps
    /\ ~HasLatentOrInfected(agents)
    /\ HasLatentOrInfected(pre)

\* C11: a run set up with no seeded vine executes exactly one step and halts,
\* and after that step every vine has the state it had after setup.
C11_ZeroSeedRunHalts ==
    (t = 1 /\ ~HasLatentOrInfected(pre))
    => /\ ~running
       /\ \A p \in Positions : agents[p].state = pre[p].state

\* C12: with intercropping distance 5 and row count 5, a vine set up at (x, y)
\* on a grid of size 20 is of the resistant cultivar (initial_state RECOVERED,
\* offset 180) for x in 5..9 and 15..19 and of the default cultivar
\* (initial_state SUSCEPTIBLE, offset 10) for x in 0..4 and 10..14, whatever y.
C12_CultivarBanding ==
    \A p \in DOMAIN agents :
        IF p[1] \in (5 .. 9) \cup (15 .. 19)
        THEN /\ agents[p].initial_state = RECOVERED
             /\ agents[p].infectivity_offset = 180
        ELSE /\ agents[p].initial_state = SUSCEPTIBLE
             /\ agents[p].infectivity_offset = 10

\* C12 witness: the loop has set up a resistant vine of the second resistant
\* band, away from the diagonal.
C12_Witness ==
    \E p \in DOMAIN agents :
        /\ p[1] = 15 /\ p[2] = 3
        /\ agents[p].initial_state = RECOVERED
        /\ agents[p].infectivity_offset = resistant_infectivity_offset

\* C13: after setup with initial_infection_count = K, 0 <= K <= number of
\* vines, exactly K vines are LATENT, of whatever cultivar; every other vine has
\* state = initial_state; no vine is INFECTED; every latency_counter is 0; and
\* every vine, seeded or not, has the initial_state and the infectivity_offset
\* of its cultivar.
C13_SetupSeeding ==
    /\ \A p \in DOMAIN agents :
          /\ agents[p].state # INFECTED
          /\ agents[p].latency_counter = 0
          /\ agents[p].state # LATENT => agents[p].state = agents[p].initial_state
          /\ agents[p].initial_state
                = IF p[1] % 10 >= 5 THEN RECOVERED ELSE SUSCEPTIBLE
          /\ agents[p].infectivity_offset = IF p[1] % 10 >= 5 THEN 180 ELSE 10
    /\ \A size \in SetupSizes, count \in 0 .. MaxConfiguredInfection :
          ( /\ DOMAIN agents = GridPositions(size)
            /\ count <= size * size
            /\ agents \in setup_outcomes(size, count, agents[<<0, 0>>].latency_duration) )
          => Cardinality(LatentVines(agents)) = count

\* C13 witness: setup has seeded two vines, one of them of the resistant
\* cultivar, which is LATENT with initial_state RECOVERED and the resistant
\* offset.
C13_Witness ==
    /\ t = 0
    /\ Cardinality(LatentVines(agents)) = 2
    /\ \E p \in LatentVines(agents) :
          /\ agents[p].initial_state = RECOVERED
          /\ agents[p].infectivity_offset = resistant_infectivity_offset
    /\ \E p \in LatentVines(agents) : agents[p].initial_state = SUSCEPTIBLE

\* C14: in a step a vine's initial_state and infectivity_offset change only if
\* the vine is INFECTED and its draw fires self-recovery, and then from the
\* default cultivar's values to RECOVERED and the resistant offset, so at most
\* once in a run; every other rule and the commit leave them alone; the
\* latency_duration never changes.
C14_CultivarAttributesChangeOnce ==
    /\ [](running =>
            \A p \in Positions, probNum \in 0 .. RandomDen - 1 :
                LET vine == update_agent(agents[p], NeighborVines(agents, p),
                                         probNum, model_generation)
                IN  (\/ vine.initial_state # agents[p].initial_state
                     \/ vine.infectivity_offset # agents[p].infectivity_offset)
                    => (agents[p].state = INFECTED /\ DrawAtMostRecoveryRate(probNum)))
    /\ [][Stepped =>
            \A p \in Positions :
                /\ agents'[p].latency_duration = agents[p].latency_duration
                /\ (\/ agents'[p].initial_state # agents[p].initial_state
                    \/ agents'[p].infectivity_offset # agents[p].infectivity_offset)
                   => /\ agents[p].state = INFECTED
                      /\ agents'[p].state = RECOVERED
                      /\ agents[p].initial_state = SUSCEPTIBLE
                      /\ agents[p].infectivity_offset = default_infectivity_offset
                      /\ agents'[p].initial_state = RECOVERED
                      /\ agents'[p].infectivity_offset = resistant_infectivity_offset]_vars

\* C14 witness: the last step made an INFECTED vine of the default cultivar
\* self-recover (initial_state RECOVERED, resistant offset) while another vine,
\* which had self-recovered earlier and was INFECTED again, kept both values.
C14_Witness ==
    /\ t > 0
    /\ \E p \in Positions :
          /\ pre[p].state = INFECTED
          /\ pre[p].initial_state = SUSCEPTIBLE
          /\ agents[p].initial_state = RECOVERED
          /\ agents[p].infectivity_offset = resistant_infectivity_offset
    /\ \E q \in Positions :
          /\ pre[q].state = INFECTED
          /\ pre[q].initial_state = RECOVERED
          /\ agents[q].state = INFECTED
          /\ agents[q].initial_state = RECOVERED
          /\ agents[q].infectivity_offset = resistant_infectivity_offset

\* a configuration the specification calls valid: positive grid size, no more
\* seeded vines than vines, no negative rate
ValidConfiguration(configuration) ==
    /\ configuration.size > 0
    /\ configuration.initial_infection_count
           <= configuration.size * configuration.size
    /\ configuration.recovery_rate_num >= 0

\* C15: setup fails under every invalid configuration: the grid that setup has
\* left is never one with which setup returns under a configuration with a
\* non-positive size, with more seeded vines than vines or with a negative rate.
C15_InvalidConfigurationRejected ==
    \A configuration \in Configurations :
        ~ValidConfiguration(configuration)
        => agents \notin produced_grids(configuration)

\* C16: after the first step of a run set up with exactly one seeded LATENT
\* vine (so no INFECTED vine), the seeded vine's latency_counter is 1, every
\* other vine's latency_counter is 0 and every other vine has the state it had
\* after setup.
C16_FirstStepAfterOneSeed ==
    (t = 1 /\ Cardinality({p \in Positions : pre[p].state = LATENT}) = 1
           /\ \A p \in Positions : pre[p].state # INFECTED)
    => \A p \in Positions :
          IF pre[p].state = LATENT
          THEN agents[p].latency_counter = 1
          ELSE /\ agents[p].latency_counter = 0
               /\ agents[p].state = pre[p].state

\* C17: an INFECTED vine can turn LATENT: whenever the grid of a running model
\* holds an INFECTED vine, there are an INFECTED vine, a uniform draw and a
\* generation of the run for which update_agent sends the vine to LATENT.
C17_InfectedCanTurnLatent ==
    (running /\ \E p \in Positions : agents[p].state = INFECTED)
    => \E p \in Positions, probNum \in 0 .. RandomDen - 1, generation \in 0 .. Steps :
          /\ agents[p].state = INFECTED
          /\ update_agent(agents[p], NeighborVines(agents, p), probNum,
                          generation).state_next = LATENT

\* C19: at every committed generation every vine's state is one of SUSCEPTIBLE,
\* LATENT, INFECTED, RECOVERED and every latency_counter is an integer >= 0.
C19_DomainAndRange ==
    \A p \in Positions :
        /\ agents[p].state \in {SUSCEPTIBLE, LATENT, INFECTED, RECOVERED}
        /\ agents[p].latency_counter \in Nat

\* C19 witness: a committed generation after several steps holds a LATENT vine
\* with a positive counter, an INFECTED vine whose counter is still positive,
\* and a RECOVERED vine.
C19_Witness ==
    /\ t > 2
    /\ \E p \in Positions :
          agents[p].state = LATENT /\ agents[p].latency_counter >= 2
    /\ \E p \in Positions :
          agents[p].state = INFECTED /\ agents[p].latency_counter > 0
    /\ \E p \in Positions : agents[p].state = RECOVERED

\* C20: the commit loop run a second time on the same state_next values, with
\* no compute phase in between, changes nothing: committing twice the grid the
\* compute loop leaves gives the grid committed once, for every draw of the
\* next step, and committing again the grid a step has left gives that grid.
C20_CommitIdempotent ==
    /\ t > 0 => Commit(agents) = agents
    /\ running =>
          \A prob \in RandomDraws(agents) :
              LET once == Commit(ComputePhase(agents, AgentOrder, prob,
                                              model_generation))
              IN  Commit(once) = once

\* C20 witness: the last step has committed a grid in which one vine left
\* SUSCEPTIBLE for LATENT and another left INFECTED for RECOVERED.
C20_Witness ==
    /\ t > 0
    /\ \E p \in Positions :
          /\ pre[p].state = SUSCEPTIBLE
          /\ agents[p].state = LATENT /\ agents[p].state_next = LATENT
    /\ \E p \in Positions :
          /\ pre[p].state = INFECTED
          /\ agents[p].state = RECOVERED /\ agents[p].state_next = RECOVERED

\* C21: in every step update_agent assigns state_next exactly once for every
\* vine, whatever its state: started on a vine whose state_next is unset it
\* leaves one of the four states there, for every draw; so the commit never
\* reads an unset or left-over state_next, and after every step each vine's
\* state is the state_next written in that step.
C21_StateNextWrittenOnce ==
    /\ running =>
          \A p \in Positions, probNum \in 0 .. RandomDen - 1 :
              LET unset == [agents[p] EXCEPT !.state_next = NoAttribute]
                  vine == update_agent(unset, NeighborVines(agents, p), probNum,
                                       model_generation)
              IN  /\ vine.state_next \in AgentStates
                  /\ state_next_writes(agents[p], NeighborVines(agents, p), probNum) = 1
    /\ t > 0 =>
          \A p \in Positions :
              /\ agents[p].state_next \in AgentStates
              /\ agents[p].state = agents[p].state_next

\* C21 witness: the first step of a run has given a state_next to vines whose
\* state_next was unset after setup: a seeded vine, now INFECTED, and an
\* unseeded one, still SUSCEPTIBLE.
C21_Witness ==
    /\ t = 1
    /\ \E p \in Positions :
          pre[p].state = LATENT /\ agents[p].state_next = INFECTED
    /\ \E p \in Positions :
          pre[p].state = SUSCEPTIBLE /\ agents[p].state_next = SUSCEPTIBLE

\* C22: at every committed generation a vine has initial_state RECOVERED exactly
\* if its infectivity_offset is 180; a SUSCEPTIBLE or RECOVERED vine has
\* state = initial_state; so a RECOVERED vine has offset 180 and a SUSCEPTIBLE
\* vine has offset 10.
C22_CultivarConsistency ==
    \A p \in DOMAIN agents :
        /\ agents[p].initial_state = RECOVERED <=> agents[p].infectivity_offset = 180
        /\ agents[p].state \in {SUSCEPTIBLE, RECOVERED}
              => agents[p].state = agents[p].initial_state
        /\ agents[p].state = RECOVERED => agents[p].infectivity_offset = 180
        /\ agents[p].state = SUSCEPTIBLE => agents[p].infectivity_offset = 10

\* C22 witness: a committed generation holds a vine that self-recovered in the
\* last step, a vine with initial_state RECOVERED that is LATENT again, and a
\* vine returned to SUSCEPTIBLE by the last step.
C22_Witness ==
    /\ t > 0
    /\ \E p \in Positions :
          /\ pre[p].state = INFECTED /\ agents[p].state = RECOVERED
          /\ agents[p].infectivity_offset = resistant_infectivity_offset
    /\ \E p \in Positions :
          /\ agents[p].state = LATENT /\ agents[p].initial_state = RECOVERED
    /\ \E p \in Positions :
          /\ pre[p].state = INFECTED /\ agents[p].state = SUSCEPTIBLE
          /\ agents[p].infectivity_offset = default_infectivity_offset

====
